---- MODULE Spec2Model ----
(***************************************************************************)
(* Model of the run view of the monitoring console (RunPage): the Remote   *)
(* Mirror (run, artifacts, files, decisions, deploy, activityLog), the     *)
(* poll orchestrator (fetchAll and the two polling effects) and the        *)
(* optimistic overlay after a HITL decision (hitlJustApproved, handleHITL).*)
(* JavaScript runs handlers and promise continuations to completion on one *)
(* event loop, so every handler and every continuation is one action; a    *)
(* request in flight is state.  React renders after each of them, and the  *)
(* effect of line 226 runs with that render, so it is part of the action.  *)
(***************************************************************************)
EXTENDS Naturals, Integers, FiniteSets, Sequences

\* Number of fetchAll calls that may be awaiting their responses at once.
MaxInFlight == 2

\* Longest activityLog handed to the phase timeline.
MaxLog == 2

\* Number of calls of one deploy-panel command (export, deploy, teardown)
\* that may be awaiting their answer at once.
MaxCommands == 2

\* Number of getFileContent calls that may be awaiting their answer at once.
MaxFileRequests == 2


VARIABLES
    mounted,          \* a RunPage instance is mounted
    run,              \* useState(null): the merged run view
    mirror,           \* artifacts, files, decisions, deploy, activityLog
    loading,          \* useState(true)
    error,            \* useState(null)
    hitlLoading,      \* useState(false)
    hitlJustApproved, \* useRef(false): the overlay is pending
    timer,            \* pollRef.current names a live interval
    polls,            \* fetchAll calls awaiting Promise.allSettled
    older,            \* those of them started before the cycle whose getRun
                      \* outcome the view applied last
    hitlCalls,        \* submitHITL requests awaiting their response
    exporting,        \* an exportProject request awaits its response
    notFound,         \* history: a 404 was applied in this activation
    completedSeen,    \* history: a completed result was applied in this activation
    submitGate,       \* history: current_phase of the view at the last submit
    last,             \* history: the last step and what it received
    activityLog,      \* PipelineTracker: the entries of its activityLog prop
    timeline,         \* PipelineTracker: what it rendered for each phase
    fetches,          \* one fetchAll call: the state of its six promises
    panel,            \* DeployPanel: exportResult, exporting, deploying, ...
    commands,         \* export, deploy and teardown calls awaiting an answer
    selected,         \* FilesPanel: useState(null)
    content,          \* FilesPanel: useState('')
    loadingFile,      \* FilesPanel: useState(false)
    fileRequests      \* FilesPanel: getFileContent calls awaiting an answer

vars == <<mounted, run, mirror, loading, error, hitlLoading, hitlJustApproved,
          timer, polls, older, hitlCalls, exporting, notFound, completedSeen,
          submitGate, last, activityLog, timeline, fetches, panel, commands,
          selected, content, loadingFile, fileRequests>>

\* The page's specifications keep the activity log as the opaque value
\* mirror["activityLog"]; the timeline's specification expands it.
trackerVars == <<activityLog, timeline>>

\* The promises of the one fetchAll call that is followed fetch by fetch.
cycleVars == <<fetches>>

\* The state of DeployPanel and the commands it has issued.
deployVars == <<panel, commands>>

\* The state of FilesPanel.
filesVars == <<selected, content, loadingFile, fileRequests>>

\* What the page's own steps leave alone: each component is expanded in a
\* specification of its own.
componentVars == <<trackerVars, cycleVars, deployVars, filesVars>>

----------------------------------------------------------------------------
\* Data

\* The two phases at which the pipeline waits for a decision.
Gates == {"hitl_gate_1", "hitl_gate_2"}

\* run === null
NoRun == [present |-> FALSE, status |-> "none", current_phase |-> "none",
          current_agent |-> ""]

RunRec(s, p, a) == [present |-> TRUE, status |-> s, current_phase |-> p,
                    current_agent |-> a]

\* Bodies of GET /runs/{id}: a status, a phase and the active agent.
RunResponses ==
    { RunRec("running", "planning", "BA Agent"),
      RunRec("waiting_hitl", "hitl_gate_1", "HITL Gate 1"),
      RunRec("running", "building", "Backend Builder"),
      RunRec("waiting_hitl", "hitl_gate_2", ""),
      RunRec("running", "devops", "DevOps Agent"),
      RunRec("completed", "done", ""),
      RunRec("error", "building", "") }

\* Outcome of getRun in one cycle: fulfilled with a body, rejected with 404,
\* rejected with anything else.
RunOutcomes ==
    { [kind |-> "ok", data |-> r] : r \in RunResponses }
      \cup { [kind |-> "notfound", data |-> NoRun],
             [kind |-> "fail", data |-> NoRun] }

Fields == {"artifacts", "files", "decisions", "deploy", "activityLog"}

\* What a fulfilled read of artifacts, files, decisions, deploy status or
\* activity returns: two values tell an overwritten field from a kept one.
Payloads == {"v1", "v2"}

\* In the run view's specification every fulfilled read returns the same
\* value: a field then holds its initial value or this one.
OnePayload == {"v1"}

\* The fetches other than getRun that are rejected in one cycle: in the run
\* view's specification they are fulfilled together or rejected together, in
\* the mirror's specification also any single one of them is rejected.
FailTogether == {{}, Fields}

FailOne == {{}, Fields} \cup { {f} : f \in Fields }

\* The getRun outcomes of the mirror's specification.
MirrorOutcomes ==
    { o \in RunOutcomes :
        o.kind # "ok" \/ o.data.current_phase = "building" }

\* useState(null), useState([]), useState({status: 'idle', urls: {}})
InitMirror == [f \in Fields |-> "initial"]

\* Bodies of POST /runs/{id}/hitl: {status, current_phase}, where ph = "none"
\* is a body without current_phase.
HitlAcks ==
    { [status |-> s, current_phase |-> p] :
        s \in {"running", "already_processed"},
        p \in {"none", "planning", "building", "devops"} }

Decisions == {"approved", "changes_requested", "rejected"}

Feedbacks == {"", "fix endpoint"}

\* What the last step was and what it received: res, failed and ver are the
\* outcomes of one settled cycle (failed names the rejected fetches), armed
\* and phase are the overlay flag and the current_phase of the view the step
\* found, ack is the body of a HITL answer, stale tells that the settled
\* cycle was started before one whose getRun outcome was already applied.
NoStep == [op |-> "none", res |-> [kind |-> "none", data |-> NoRun],
           failed |-> {}, ver |-> "none", armed |-> FALSE, phase |-> "none",
           ack |-> [status |-> "none", current_phase |-> "none"],
           decision |-> "none", stale |-> FALSE]

Step(op) == [NoStep EXCEPT !.op = op]

\* The six reads of one fetchAll call (lines 196-197).
Fetchers == Fields \cup {"run"}

\* No fetchAll call is followed fetch by fetch.
NoFetches == [f \in Fetchers |-> "idle"]

\* DeployPanel is not rendered; when it is, lines 5-9 of it: open tells
\* that it is rendered, composeInfo is "none" (null), "tool" or "notool",
\* call is where the handleExport call awaited at line 12 stands ("none",
\* "export" for exportProject, "refresh" for the fetchAll that follows).
NoPanel == [open |-> FALSE, exportResult |-> FALSE, exporting |-> FALSE,
            deploying |-> FALSE, composeInfo |-> "none", call |-> "none"]

\* Calls of the page's handlers awaiting an answer, those started by a
\* panel that is no longer rendered included: handleExport awaiting
\* exportProject, handleExport awaiting fetchAll, handleDeploy,
\* handleTeardown.
NoCommands == [export |-> 0, refresh |-> 0, deploy |-> 0, teardown |-> 0]

\* FilesPanel, line 9: useState(''); a content is the text of a path or the
\* error placeholder written for a path.
NoContent == [path |-> "none", kind |-> "empty"]

\* The paths of the generated files the panel lists.
FilePaths == {"backend/main.py", "frontend/App.jsx", "README.md"}

\* No getFileContent call awaits its answer.
NoFileRequests == [path \in FilePaths |-> 0]

\* The components as the page's specifications keep them.
ComponentsIdle ==
    /\ fetches = NoFetches
    /\ panel = NoPanel
    /\ commands = NoCommands
    /\ selected = "none"
    /\ content = NoContent
    /\ loadingFile = FALSE
    /\ fileRequests = NoFileRequests

----------------------------------------------------------------------------
\* Mutant of MergeRun: a pending overlay masks every result, whatever its
\* status.
MergeRun_MaskAnyStatus(prev, armed, incoming) ==
    IF armed
    THEN [incoming EXCEPT
            !.status = "running",
            !.current_phase =
                IF prev.current_phase = "hitl_gate_1" THEN "building"
                ELSE IF prev.current_phase = "hitl_gate_2" THEN "devops"
                ELSE incoming.current_phase,
            !.current_agent = ""]
    ELSE incoming

\* Mutant of MergeRun: the overlay masks nothing.
MergeRun_Unmasked(prev, armed, incoming) == incoming

\* Mutant of MergeRun: the overlay replaces the phase but keeps the status
\* of the result.
MergeRun_MaskPhaseOnly(prev, armed, incoming) ==
    IF armed /\ incoming.status = "waiting_hitl"
    THEN [incoming EXCEPT
            !.current_phase =
                IF prev.current_phase = "hitl_gate_1" THEN "building"
                ELSE IF prev.current_phase = "hitl_gate_2" THEN "devops"
                ELSE incoming.current_phase,
            !.current_agent = ""]
    ELSE incoming

\* fetchAll, lines 199-212: the run the view holds after a fulfilled getRun.
MergeRun(prev, armed, incoming) ==
    IF armed /\ incoming.status = "waiting_hitl"
    THEN [incoming EXCEPT
            !.status = "running",
            !.current_phase =
                IF prev.current_phase = "hitl_gate_1" THEN "building"
                ELSE IF prev.current_phase = "hitl_gate_2" THEN "devops"
                ELSE incoming.current_phase,
            !.current_agent = ""]
    ELSE incoming

\* Mutant of RetireOverlay: any fulfilled getRun retires the overlay.
RetireOverlay_OnAnyResult(armed, incoming) == FALSE

\* fetchAll, lines 201-203: the overlay flag after a fulfilled getRun.
RetireOverlay(armed, incoming) ==
    IF armed /\ incoming.status # "waiting_hitl" THEN FALSE ELSE armed

\* handleHITL, line 234: the optimistic update of the view.
PredictRun(prev, data) ==
    IF prev.present
    THEN [prev EXCEPT
            !.status = "running",
            !.current_phase =
                IF data.current_phase # "none" THEN data.current_phase
                ELSE prev.current_phase,
            !.current_agent = ""]
    ELSE prev

\* Effect of line 226: it runs with the render in which run?.status differs
\* from the previous render's, and clears the interval when it is completed.
StatusEffect(prev, next, t) ==
    IF next.status # prev.status /\ next.status = "completed" THEN FALSE ELSE t

\* Mutant of ApplyFields: one rejected fetch drops the whole cycle.
ApplyFields_AllOrNothing(m, failed, v) ==
    [f \in Fields |-> IF failed # {} THEN m[f] ELSE v]

\* Mutant of ApplyFields: a rejected fetch empties its field.
ApplyFields_ClearFailed(m, failed, v) ==
    [f \in Fields |-> IF f \in failed THEN "initial" ELSE v]

\* fetchAll, lines 216-220: the five other fields after a settled cycle.
ApplyFields(m, failed, v) ==
    [f \in Fields |-> IF f \in failed THEN m[f] ELSE v]

\* Mutant of CanSubmit: the buttons ignore the loading prop.
CanSubmit_IgnoreLoading(decision, feedback) ==
    /\ mounted /\ ~loading /\ run.present
    /\ run.status = "waiting_hitl"
    /\ (decision = "changes_requested" => feedback # "")

\* HITLGate is rendered (line 292) and its buttons are enabled (HITLGate
\* lines 30-41).
CanSubmit(decision, feedback) ==
    /\ mounted /\ ~loading /\ run.present
    /\ run.status = "waiting_hitl"
    /\ ~hitlLoading
    /\ (decision = "changes_requested" => feedback # "")

----------------------------------------------------------------------------
\* PipelineTracker: the phase timeline

\* Mutant of PHASES: integration is listed before building.
PHASES_Swapped ==
    <<"planning", "hitl_gate_1", "integration", "building", "hitl_gate_2",
      "devops", "done">>

\* The keys of PHASES, in the order of the array.
PHASES ==
    <<"planning", "hitl_gate_1", "building", "integration", "hitl_gate_2",
      "devops", "done">>

\* AGENT_PHASE[agent]; a name that is not a key of the table gives undefined.
AGENT_PHASE(agent) ==
    CASE agent \in {"BA Agent", "PO Agent", "Architect", "Evaluator"}
             -> "planning"
      [] agent = "HITL Gate 1" -> "hitl_gate_1"
      [] agent \in {"Backend Builder", "Frontend Builder", "QA Agent"}
             -> "building"
      [] agent = "Integration Validator" -> "integration"
      [] agent = "HITL Gate 2" -> "hitl_gate_2"
      [] agent = "DevOps Agent" -> "devops"
      [] agent = "Pipeline" -> "done"
      [] OTHER -> "undefined"

\* Mutant of phaseIndex: the position is counted from one.
phaseIndex_FromOne(phase) ==
    IF \E i \in DOMAIN PHASES : PHASES[i] = phase
    THEN CHOOSE i \in DOMAIN PHASES : PHASES[i] = phase
    ELSE 0

\* Mutant of phaseIndex: the -1 of findIndex is returned as it is.
phaseIndex_NoFallback(phase) ==
    IF \E i \in DOMAIN PHASES : PHASES[i] = phase
    THEN (CHOOSE i \in DOMAIN PHASES : PHASES[i] = phase) - 1
    ELSE -1

\* phaseIndex: the zero-based position of the phase, 0 when findIndex
\* returns -1.
phaseIndex(phase) ==
    IF \E i \in DOMAIN PHASES : PHASES[i] = phase
    THEN (CHOOSE i \in DOMAIN PHASES : PHASES[i] = phase) - 1
    ELSE 0

\* Mutant of latestByAgent: the first entry of an agent is kept.
RECURSIVE latestByAgent_FirstWins(_)
latestByAgent_FirstWins(log) ==
    IF log = <<>> THEN <<>>
    ELSE LET rest == latestByAgent_FirstWins(SubSeq(log, 1, Len(log) - 1))
             entry == log[Len(log)]
         IN  IF \E i \in DOMAIN rest : rest[i][1] = entry.agent
             THEN rest
             ELSE Append(rest, <<entry.agent, entry>>)

\* Object.entries(latestByAgent) after the loop of line 26: one pair
\* <<agent, entry>> per agent, in the order in which the agents first
\* appear, each with the entry assigned last.
RECURSIVE latestByAgent(_)
latestByAgent(log) ==
    IF log = <<>> THEN <<>>
    ELSE LET rest == latestByAgent(SubSeq(log, 1, Len(log) - 1))
             entry == log[Len(log)]
         IN  IF \E i \in DOMAIN rest : rest[i][1] = entry.agent
             THEN [i \in DOMAIN rest |->
                     IF rest[i][1] = entry.agent
                     THEN <<entry.agent, entry>> ELSE rest[i]]
             ELSE Append(rest, <<entry.agent, entry>>)

\* Line 43: the pairs whose agent the table maps to the phase.
phaseAgents(entries, key) ==
    SelectSeq(entries, LAMBDA pair : AGENT_PHASE(pair[1]) = key)

\* One element of PHASES.map (lines 39-89): the three classes and the agent
\* pairs that are rendered, as chips for a done phase (lines 67-75), as
\* rows for the current phase of a running run (lines 76-86).
PhaseView(r, log, i) ==
    LET current == phaseIndex(r.current_phase)
        isDone == (i - 1) < current
        isCurrent == (i - 1) = current
        isPending == (i - 1) > current
        agents == phaseAgents(latestByAgent(log), PHASES[i])
    IN  [key |-> PHASES[i],
         isDone |-> isDone, isCurrent |-> isCurrent, isPending |-> isPending,
         agents |-> IF isDone \/ (isCurrent /\ r.status = "running")
                    THEN agents ELSE <<>>]

\* The timeline rendered by PipelineTracker({ run, activityLog }).
PipelineTracker(r, log) == [i \in DOMAIN PHASES |-> PhaseView(r, log, i)]

\* Nothing rendered yet.
NoTimeline == <<>>

\* The run props of the timeline's specification: every status the page
\* knows, every phase, a missing phase and one that is not in PHASES.
TrackerRuns ==
    { RunRec(st, ph, "") :
        st \in {"running", "waiting_hitl", "completed", "error"},
        ph \in {PHASES[i] : i \in DOMAIN PHASES} \cup {"none", "review"} }

\* The activity entries of the timeline's specification: two agents of one
\* phase, one of a later phase, one of the last phase and one the table
\* does not know, each with two messages.
LogEntries ==
    { [agent |-> ag, message |-> msg] :
        ag \in {"BA Agent", "Evaluator", "Backend Builder", "Pipeline",
                 "Reviewer"},
        msg \in {"m1", "m2"} }

RECURSIVE SeqsUpTo(_, _)
SeqsUpTo(S, n) ==
    IF n = 0 THEN {<<>>}
    ELSE LET shorter == SeqsUpTo(S, n - 1)
         IN  shorter \cup { Append(q, x) : q \in shorter, x \in S }

\* The activityLog props: every sequence of at most MaxLog entries.
Logs == SeqsUpTo(LogEntries, MaxLog)

----------------------------------------------------------------------------
Init ==
    /\ mounted = FALSE
    /\ run = NoRun
    /\ mirror = InitMirror
    /\ loading = TRUE
    /\ error = "none"
    /\ hitlLoading = FALSE
    /\ hitlJustApproved = FALSE
    /\ timer = FALSE
    /\ polls = 0
    /\ older = 0
    /\ hitlCalls = 0
    /\ exporting = FALSE
    /\ notFound = FALSE
    /\ completedSeen = FALSE
    /\ submitGate = "none"
    /\ last = NoStep
    /\ activityLog = <<>>
    /\ timeline = NoTimeline
    /\ ComponentsIdle

\* The route renders RunPage: state of lines 180-191, then the effect of
\* line 225 (one fetchAll at once, then the interval).  The new instance
\* shares nothing with a former one, whose responses are dropped (the
\* Discard actions) before this step.
Mount ==
    /\ ~mounted /\ polls = 0 /\ hitlCalls = 0 /\ ~exporting
    /\ mounted' = TRUE
    /\ run' = NoRun /\ mirror' = InitMirror /\ loading' = TRUE
    /\ error' = "none" /\ hitlLoading' = FALSE /\ hitlJustApproved' = FALSE
    /\ timer' = TRUE /\ polls' = 1 /\ older' = 0
    /\ notFound' = FALSE /\ completedSeen' = FALSE /\ submitGate' = "none"
    /\ last' = Step("mount")
    /\ UNCHANGED <<hitlCalls, exporting>>
    /\ UNCHANGED componentVars

\* The page is left: cleanup of the effect of line 225.  The requests in
\* flight stay in flight.
Unmount ==
    /\ mounted
    /\ mounted' = FALSE /\ timer' = FALSE
    /\ run' = NoRun /\ mirror' = InitMirror /\ loading' = TRUE
    /\ error' = "none" /\ hitlLoading' = FALSE /\ hitlJustApproved' = FALSE
    /\ notFound' = FALSE /\ completedSeen' = FALSE /\ submitGate' = "none"
    /\ last' = Step("unmount")
    /\ older' = 0
    /\ UNCHANGED <<polls, hitlCalls, exporting>>
    /\ UNCHANGED componentVars

\* The runId of the route changes while RunPage stays mounted: fetchAll is
\* a new callback, so the effect of line 225 is cleaned up and run again.
\* The state and the ref are kept.
ChangeRun ==
    /\ mounted /\ polls < MaxInFlight
    /\ timer' = TRUE /\ polls' = polls + 1
    /\ notFound' = FALSE /\ completedSeen' = FALSE
    /\ last' = Step("activate")
    /\ older' = older
    /\ UNCHANGED <<mounted, run, mirror, loading, error, hitlLoading,
                   hitlJustApproved, hitlCalls, exporting, submitGate>>
    /\ UNCHANGED componentVars

\* Mutant of Tick: the interval skips a tick while a cycle is in flight.
Tick_Serialized ==
    /\ mounted /\ timer /\ polls = 0
    /\ polls' = polls + 1
    /\ last' = Step("tick")
    /\ older' = older
    /\ UNCHANGED <<mounted, run, mirror, loading, error, hitlLoading,
                   hitlJustApproved, timer, hitlCalls, exporting, notFound,
                   completedSeen, submitGate>>
    /\ UNCHANGED componentVars

\* setInterval(fetchAll, POLL_INTERVAL) fires.
Tick ==
    /\ mounted /\ timer /\ polls < MaxInFlight
    /\ polls' = polls + 1
    /\ last' = Step("tick")
    /\ older' = older
    /\ UNCHANGED <<mounted, run, mirror, loading, error, hitlLoading,
                   hitlJustApproved, timer, hitlCalls, exporting, notFound,
                   completedSeen, submitGate>>
    /\ UNCHANGED componentVars

\* The Refrescar button (line 279), rendered once a run is shown.
Refresh ==
    /\ mounted /\ ~loading /\ run.present /\ polls < MaxInFlight
    /\ polls' = polls + 1
    /\ last' = Step("refresh")
    /\ older' = older
    /\ UNCHANGED <<mounted, run, mirror, loading, error, hitlLoading,
                   hitlJustApproved, timer, hitlCalls, exporting, notFound,
                   completedSeen, submitGate>>
    /\ UNCHANGED componentVars

\* The cycles in flight in the order they were started: the first `older`
\* of them were started before the cycle whose getRun outcome was applied
\* last.  When the k-th settles and its getRun outcome is applied (fulfilled
\* or 404), the cycles started before it become older ones.
OlderAfter(k, o) ==
    IF k <= older THEN older - 1
    ELSE IF o.kind = "fail" THEN older
    ELSE k - 1

\* The continuation of fetchAll after Promise.allSettled, for the k-th of
\* the cycles in flight (no order is enforced among them): o is the outcome
\* of getRun, failed the other fetches that were rejected, v what the
\* fulfilled ones returned.
FetchAllContinuation(o, failed, v, k) ==
    /\ mounted /\ polls > 0 /\ k \in 1..polls
    /\ polls' = polls - 1
    /\ older' = OlderAfter(k, o)
    /\ loading' = FALSE
    /\ IF o.kind = "notfound"
       THEN /\ timer' = FALSE
            /\ run' = NoRun
            /\ notFound' = TRUE
            /\ UNCHANGED <<mirror, hitlJustApproved, completedSeen>>
       ELSE /\ run' = IF o.kind = "ok"
                      THEN MergeRun(run, hitlJustApproved, o.data) ELSE run
            /\ hitlJustApproved' =
                   IF o.kind = "ok"
                   THEN RetireOverlay(hitlJustApproved, o.data)
                   ELSE hitlJustApproved
            /\ mirror' = ApplyFields(mirror, failed, v)
            /\ timer' = StatusEffect(run, run', timer)
            /\ completedSeen' =
                   (completedSeen \/
                      (o.kind = "ok" /\ o.data.status = "completed"))
            /\ UNCHANGED notFound
    /\ last' = [Step("poll") EXCEPT
                  !.res = o,
                  !.failed = failed \cup (IF o.kind = "ok" THEN {} ELSE {"run"}),
                  !.ver = v,
                  !.armed = hitlJustApproved,
                  !.phase = run.current_phase,
                  !.stale = (k <= older)]
    /\ UNCHANGED <<mounted, error, hitlLoading, hitlCalls, exporting,
                   submitGate>>

\* A whole fetchAll call of the page settles.
PollResponse(o, failed, v, k) ==
    /\ FetchAllContinuation(o, failed, v, k)
    /\ UNCHANGED componentVars

\* A button of HITLGate is pressed: handleHITL up to its await.
Submit(decision, feedback) ==
    /\ CanSubmit(decision, feedback)
    /\ hitlLoading' = TRUE
    /\ error' = "none"
    /\ hitlCalls' = hitlCalls + 1
    /\ submitGate' = run.current_phase
    /\ last' = [Step("submit") EXCEPT !.decision = decision,
                                      !.armed = hitlJustApproved,
                                      !.phase = run.current_phase]
    /\ older' = older
    /\ UNCHANGED <<mounted, run, mirror, loading, hitlJustApproved, timer,
                   polls, exporting, notFound, completedSeen>>
    /\ UNCHANGED componentVars

\* Mutant of HitlResponse: the test of line 233 is missing.
HitlResponse_AlwaysArm(data) ==
    /\ mounted /\ hitlCalls > 0
    /\ hitlCalls' = hitlCalls - 1
    /\ hitlJustApproved' = TRUE
    /\ run' = PredictRun(run, data)
    /\ timer' = StatusEffect(run, run', timer)
    /\ hitlLoading' = FALSE
    /\ last' = [Step("hitl_ack") EXCEPT !.ack = data,
                                        !.armed = hitlJustApproved,
                                        !.phase = run.current_phase]
    /\ older' = older
    /\ UNCHANGED <<mounted, mirror, loading, error, polls, exporting,
                   notFound, completedSeen, submitGate>>
    /\ UNCHANGED componentVars

\* submitHITL is fulfilled with body data: handleHITL, lines 232-237.
HitlResponse(data) ==
    /\ mounted /\ hitlCalls > 0
    /\ hitlCalls' = hitlCalls - 1
    /\ IF data.status # "already_processed"
       THEN /\ hitlJustApproved' = TRUE
            /\ run' = PredictRun(run, data)
       ELSE UNCHANGED <<hitlJustApproved, run>>
    /\ timer' = StatusEffect(run, run', timer)
    /\ hitlLoading' = FALSE
    /\ last' = [Step("hitl_ack") EXCEPT !.ack = data,
                                        !.armed = hitlJustApproved,
                                        !.phase = run.current_phase]
    /\ older' = older
    /\ UNCHANGED <<mounted, mirror, loading, error, polls, exporting,
                   notFound, completedSeen, submitGate>>
    /\ UNCHANGED componentVars

\* Mutant of HitlFailure: the finally of line 237 is missing.
HitlFailure_NoFinally ==
    /\ mounted /\ hitlCalls > 0
    /\ hitlCalls' = hitlCalls - 1
    /\ error' = "detail"
    /\ last' = [Step("hitl_fail") EXCEPT !.armed = hitlJustApproved,
                                         !.phase = run.current_phase]
    /\ older' = older
    /\ UNCHANGED <<mounted, run, mirror, loading, hitlLoading,
                   hitlJustApproved, timer, polls, exporting, notFound,
                   completedSeen, submitGate>>
    /\ UNCHANGED componentVars

\* submitHITL is rejected: handleHITL, lines 236-237.
HitlFailure ==
    /\ mounted /\ hitlCalls > 0
    /\ hitlCalls' = hitlCalls - 1
    /\ error' = "detail"
    /\ hitlLoading' = FALSE
    /\ last' = [Step("hitl_fail") EXCEPT !.armed = hitlJustApproved,
                                         !.phase = run.current_phase]
    /\ older' = older
    /\ UNCHANGED <<mounted, run, mirror, loading, hitlJustApproved, timer,
                   polls, exporting, notFound, completedSeen, submitGate>>
    /\ UNCHANGED componentVars

\* The Exportar button of the deploy panel (enabled on a completed run):
\* handleExport up to its first await.
Export ==
    /\ mounted /\ ~loading /\ run.present
    /\ run.status = "completed" /\ ~exporting
    /\ exporting' = TRUE
    /\ last' = Step("export")
    /\ older' = older
    /\ UNCHANGED <<mounted, run, mirror, loading, error, hitlLoading,
                   hitlJustApproved, timer, polls, hitlCalls, notFound,
                   completedSeen, submitGate>>
    /\ UNCHANGED componentVars

\* exportProject is fulfilled: handleExport goes on with fetchAll().
ExportDone ==
    /\ mounted /\ exporting /\ polls < MaxInFlight
    /\ exporting' = FALSE
    /\ polls' = polls + 1
    /\ last' = Step("export_ok")
    /\ older' = older
    /\ UNCHANGED <<mounted, run, mirror, loading, error, hitlLoading,
                   hitlJustApproved, timer, hitlCalls, notFound,
                   completedSeen, submitGate>>
    /\ UNCHANGED componentVars

\* exportProject is rejected: the catch of handleExport.
ExportFailure ==
    /\ mounted /\ exporting
    /\ exporting' = FALSE
    /\ error' = "detail"
    /\ last' = Step("export_fail")
    /\ older' = older
    /\ UNCHANGED <<mounted, run, mirror, loading, hitlLoading,
                   hitlJustApproved, timer, polls, hitlCalls, notFound,
                   completedSeen, submitGate>>
    /\ UNCHANGED componentVars

\* The cerrar button of the error banner (line 288).
CloseError ==
    /\ mounted /\ ~loading /\ run.present /\ error # "none"
    /\ error' = "none"
    /\ last' = Step("close_error")
    /\ older' = older
    /\ UNCHANGED <<mounted, run, mirror, loading, hitlLoading,
                   hitlJustApproved, timer, polls, hitlCalls, exporting,
                   notFound, completedSeen, submitGate>>
    /\ UNCHANGED componentVars

\* A response reaches an instance that was unmounted: React drops the state
\* updates, and the ref and the interval it touches are no longer used.
DiscardPoll ==
    /\ ~mounted /\ polls > 0
    /\ polls' = polls - 1
    /\ last' = Step("discard")
    /\ older' = older
    /\ UNCHANGED <<mounted, run, mirror, loading, error, hitlLoading,
                   hitlJustApproved, timer, hitlCalls, exporting, notFound,
                   completedSeen, submitGate>>
    /\ UNCHANGED componentVars

DiscardHitl ==
    /\ ~mounted /\ hitlCalls > 0
    /\ hitlCalls' = hitlCalls - 1
    /\ last' = Step("discard")
    /\ older' = older
    /\ UNCHANGED <<mounted, run, mirror, loading, error, hitlLoading,
                   hitlJustApproved, timer, polls, exporting, notFound,
                   completedSeen, submitGate>>
    /\ UNCHANGED componentVars

DiscardExport ==
    /\ ~mounted /\ exporting
    /\ exporting' = FALSE
    /\ last' = Step("discard")
    /\ older' = older
    /\ UNCHANGED <<mounted, run, mirror, loading, error, hitlLoading,
                   hitlJustApproved, timer, polls, hitlCalls, notFound,
                   completedSeen, submitGate>>
    /\ UNCHANGED componentVars

Next ==
    \/ Mount
    \/ Tick
    \/ Refresh
    \/ \E o \in RunOutcomes, failed \in FailTogether, v \in OnePayload,
          k \in 1..MaxInFlight :
          PollResponse(o, failed, v, k)
    \/ \E d \in Decisions, fb \in Feedbacks : Submit(d, fb)
    \/ \E data \in HitlAcks : HitlResponse(data)
    \/ HitlFailure
    \/ Export
    \/ ExportDone
    \/ ExportFailure
    \/ CloseError
    \/ ChangeRun
    \/ Unmount
    \/ DiscardPoll
    \/ DiscardHitl
    \/ DiscardExport

Spec == Init /\ [][Next]_vars

\* The mirror's specification: the polling lifecycle with every combination
\* of rejected fetches, without the HITL and export commands.
NextMirror ==
    \/ Mount
    \/ Tick
    \/ Refresh
    \/ \E o \in MirrorOutcomes, failed \in FailOne, v \in Payloads,
          k \in 1..MaxInFlight :
          PollResponse(o, failed, v, k)
    \/ ChangeRun
    \/ Unmount
    \/ DiscardPoll

SpecMirror == Init /\ [][NextMirror]_vars

\* The timeline's specification: a page that shows a run (line 306) hands
\* the run and the activity log to PipelineTracker, which renders them.
InitTracker ==
    /\ mounted = TRUE
    /\ run \in TrackerRuns
    /\ mirror = [f \in Fields |-> "v1"]
    /\ loading = FALSE
    /\ error = "none"
    /\ hitlLoading = FALSE
    /\ hitlJustApproved = FALSE
    /\ timer = TRUE
    /\ polls = 0
    /\ older = 0
    /\ hitlCalls = 0
    /\ exporting = FALSE
    /\ notFound = FALSE
    /\ completedSeen = FALSE
    /\ submitGate = "none"
    /\ last = NoStep
    /\ activityLog \in Logs
    /\ timeline = NoTimeline
    /\ ComponentsIdle

Render ==
    /\ mounted /\ ~loading /\ run.present
    /\ timeline' = PipelineTracker(run, activityLog)
    /\ last' = Step("render")
    /\ UNCHANGED <<mounted, run, mirror, loading, error, hitlLoading,
                   hitlJustApproved, timer, polls, older, hitlCalls,
                   exporting, notFound, completedSeen, submitGate,
                   activityLog>>
    /\ UNCHANGED <<cycleVars, deployVars, filesVars>>

NextTracker == Render

SpecTracker == InitTracker /\ [][NextTracker]_vars

----------------------------------------------------------------------------
\* One fetchAll call, fetch by fetch

\* The body getRun returns in the cycle's specification.
CycleBody == RunRec("running", "building", "Backend Builder")

\* How a promise of the call can settle: getRun with the body, a 404 or
\* another rejection, the five other reads with a payload or a rejection.
Settlements(f) ==
    IF f = "run" THEN {"body", "notfound", "rejected"}
    ELSE OnePayload \cup {"rejected"}

\* What Promise.allSettled hands to the continuation.
CycleOutcome ==
    CASE fetches["run"] = "body" -> [kind |-> "ok", data |-> CycleBody]
      [] fetches["run"] = "notfound" -> [kind |-> "notfound", data |-> NoRun]
      [] OTHER -> [kind |-> "fail", data |-> NoRun]

CycleFailed == {f \in Fields : fetches[f] = "rejected"}

\* The page right after it was mounted: the six requests of the first
\* fetchAll call (lines 195-198) are in flight.
InitCycle ==
    /\ mounted = TRUE
    /\ run = NoRun
    /\ mirror = InitMirror
    /\ loading = TRUE
    /\ error = "none"
    /\ hitlLoading = FALSE
    /\ hitlJustApproved = FALSE
    /\ timer = TRUE
    /\ polls = 1
    /\ older = 0
    /\ hitlCalls = 0
    /\ exporting = FALSE
    /\ notFound = FALSE
    /\ completedSeen = FALSE
    /\ submitGate = "none"
    /\ last = Step("mount")
    /\ activityLog = <<>>
    /\ timeline = NoTimeline
    /\ fetches = [f \in Fetchers |-> "pending"]
    /\ panel = NoPanel
    /\ commands = NoCommands
    /\ selected = "none"
    /\ content = NoContent
    /\ loadingFile = FALSE
    /\ fileRequests = NoFileRequests

\* The interval calls fetchAll: the six requests are sent (lines 195-198).
\* One call is followed at a time; overlapping calls are in Spec.
StartCycle ==
    /\ mounted /\ timer /\ polls = 0 /\ fetches = NoFetches
    /\ polls' = 1
    /\ fetches' = [f \in Fetchers |-> "pending"]
    /\ last' = Step("tick")
    /\ UNCHANGED <<mounted, run, mirror, loading, error, hitlLoading,
                   hitlJustApproved, timer, older, hitlCalls, exporting,
                   notFound, completedSeen, submitGate>>
    /\ UNCHANGED <<trackerVars, deployVars, filesVars>>

\* One of the six promises settles with r.  Promise.allSettled is still
\* pending unless it was the last one, and its continuation is a later
\* step: nothing of the view changes.
Settle(f, r) ==
    /\ fetches[f] = "pending"
    /\ r \in Settlements(f)
    /\ fetches' = [fetches EXCEPT ![f] = r]
    /\ last' = Step("settle")
    /\ UNCHANGED <<mounted, run, mirror, loading, error, hitlLoading,
                   hitlJustApproved, timer, polls, older, hitlCalls,
                   exporting, notFound, completedSeen, submitGate>>
    /\ UNCHANGED <<trackerVars, deployVars, filesVars>>

\* The six promises have settled: the await of line 195 returns and the
\* rest of fetchAll runs.
AllSettled ==
    /\ \A f \in Fetchers : fetches[f] \notin {"idle", "pending"}
    /\ \E v \in OnePayload :
          FetchAllContinuation(CycleOutcome, CycleFailed, v, 1)
    /\ fetches' = NoFetches
    /\ UNCHANGED <<trackerVars, deployVars, filesVars>>

NextCycle ==
    \/ StartCycle
    \/ \E f \in Fetchers : \E r \in Settlements(f) : Settle(f, r)
    \/ AllSettled

SpecCycle == InitCycle /\ [][NextCycle]_vars

----------------------------------------------------------------------------
\* DeployPanel and the three handlers the page hands to it

\* The status of the deploy field: 'idle' is the page's initial value
\* (part_007 line 184), the panel tests 'running', 'already_running' and
\* 'error'.
DeployStatuses == {"idle", "running", "already_running", "error"}

\* DeployPanel, line 16.
isRunning == mirror["deploy"] \in {"running", "already_running"}

\* The run bodies of the panel's specification.
PanelRuns ==
    { RunRec("running", "devops", "DevOps Agent"),
      RunRec("completed", "done", "") }

pageVarsOfPanel ==
    <<mounted, loading, hitlLoading, hitlJustApproved, timer, polls, older,
      hitlCalls, exporting, notFound, completedSeen, submitGate>>

\* A page that shows a run, on another tab than Deploy.
InitDeploy ==
    /\ mounted = TRUE
    /\ run \in PanelRuns
    /\ mirror = [InitMirror EXCEPT !["deploy"] = "idle"]
    /\ loading = FALSE
    /\ error = "none"
    /\ hitlLoading = FALSE
    /\ hitlJustApproved = FALSE
    /\ timer = TRUE
    /\ polls = 0
    /\ older = 0
    /\ hitlCalls = 0
    /\ exporting = FALSE
    /\ notFound = FALSE
    /\ completedSeen = FALSE
    /\ submitGate = "none"
    /\ last = NoStep
    /\ activityLog = <<>>
    /\ timeline = NoTimeline
    /\ ComponentsIdle

\* The Deploy tab is chosen (part_007 lines 295, 310): a new DeployPanel
\* with the state of lines 5-9.
OpenPanel ==
    /\ mounted /\ ~loading /\ run.present /\ ~panel.open
    /\ panel' = [NoPanel EXCEPT !.open = TRUE]
    /\ last' = Step("open_panel")
    /\ UNCHANGED <<run, mirror, error, commands>>
    /\ UNCHANGED <<pageVarsOfPanel, trackerVars, cycleVars, filesVars>>

\* Another tab is chosen: the panel and its state are gone, the calls it
\* started go on.
ClosePanel ==
    /\ panel.open
    /\ panel' = NoPanel
    /\ last' = Step("close_panel")
    /\ UNCHANGED <<run, mirror, error, commands>>
    /\ UNCHANGED <<pageVarsOfPanel, trackerVars, cycleVars, filesVars>>

\* deployCheck of line 11 is fulfilled.
ComposeChecked(info) ==
    /\ panel.open /\ panel.composeInfo = "none"
    /\ panel' = [panel EXCEPT !.composeInfo = info]
    /\ last' = Step("compose")
    /\ UNCHANGED <<run, mirror, error, commands>>
    /\ UNCHANGED <<pageVarsOfPanel, trackerVars, cycleVars, filesVars>>

\* The page applies a poll result: its run body and its deploy status
\* (fetchAll lines 199-212 and 219).
PanelPoll(body, st) ==
    /\ mounted
    /\ run' = MergeRun(run, hitlJustApproved, body)
    /\ mirror' = ApplyFields(mirror, Fields \ {"deploy"}, st)
    /\ last' = [Step("poll") EXCEPT !.res = [kind |-> "ok", data |-> body]]
    /\ UNCHANGED <<error, panel, commands>>
    /\ UNCHANGED <<pageVarsOfPanel, trackerVars, cycleVars, filesVars>>

\* The Exportar button (panel lines 12, 23).
ClickExport ==
    /\ panel.open
    /\ ~(panel.exporting \/ run.status # "completed")
    /\ commands.export + commands.refresh < MaxCommands
    /\ panel' = [panel EXCEPT !.exporting = TRUE, !.call = "export"]
    /\ commands' = [commands EXCEPT !.export = @ + 1]
    /\ last' = Step("click_export")
    /\ UNCHANGED <<run, mirror, error>>
    /\ UNCHANGED <<pageVarsOfPanel, trackerVars, cycleVars, filesVars>>

\* Whether a call in a stage is the one the rendered panel awaits (own) or
\* one started by a panel that was closed since.
CallInStage(own, stage, n) ==
    IF own THEN panel.call = stage
    ELSE n > (IF panel.call = stage THEN 1 ELSE 0)

\* exportProject is fulfilled: handleExport calls fetchAll (part_007 line
\* 239).
ExportPosted(own) ==
    /\ CallInStage(own, "export", commands.export)
    /\ commands' = [commands EXCEPT !.export = @ - 1, !.refresh = @ + 1]
    /\ panel' = IF own THEN [panel EXCEPT !.call = "refresh"] ELSE panel
    /\ last' = Step("export_posted")
    /\ UNCHANGED <<run, mirror, error>>
    /\ UNCHANGED <<pageVarsOfPanel, trackerVars, cycleVars, filesVars>>

\* exportProject is rejected: the catch of handleExport sets the error and
\* the panel gets undefined (panel line 12).
ExportRejected(own) ==
    /\ CallInStage(own, "export", commands.export)
    /\ commands' = [commands EXCEPT !.export = @ - 1]
    /\ error' = "detail"
    /\ panel' = IF own THEN [panel EXCEPT !.exporting = FALSE, !.call = "none"]
                 ELSE panel
    /\ last' = Step("export_fail")
    /\ UNCHANGED <<run, mirror>>
    /\ UNCHANGED <<pageVarsOfPanel, trackerVars, cycleVars, filesVars>>

\* The fetchAll of handleExport settles: its poll result is applied,
\* handleExport returns the export's data and the panel keeps it.
ExportReturned(own, body, st) ==
    /\ CallInStage(own, "refresh", commands.refresh)
    /\ commands' = [commands EXCEPT !.refresh = @ - 1]
    /\ run' = MergeRun(run, hitlJustApproved, body)
    /\ mirror' = ApplyFields(mirror, Fields \ {"deploy"}, st)
    /\ panel' = IF own
                 THEN [panel EXCEPT !.exportResult = TRUE,
                                    !.exporting = FALSE, !.call = "none"]
                 ELSE panel
    /\ last' = [Step("export_return") EXCEPT
                  !.res = [kind |-> "ok", data |-> body]]
    /\ UNCHANGED error
    /\ UNCHANGED <<pageVarsOfPanel, trackerVars, cycleVars, filesVars>>

\* The Desplegar button (panel lines 13, 50, 61-62).
ClickDeploy ==
    /\ panel.open /\ panel.composeInfo # "notool"
    /\ ~isRunning
    /\ ~(panel.deploying \/ ~panel.exportResult)
    /\ commands.deploy < MaxCommands
    /\ panel' = [panel EXCEPT !.deploying = TRUE]
    /\ commands' = [commands EXCEPT !.deploy = @ + 1]
    /\ last' = Step("click_deploy")
    /\ UNCHANGED <<run, mirror, error>>
    /\ UNCHANGED <<pageVarsOfPanel, trackerVars, cycleVars, filesVars>>

\* deployApp settles: handleDeploy (part_007 line 240) stores the body in
\* the deploy field or sets the error, then the panel clears deploying.
DeployAnswered(own, ok, st) ==
    /\ IF own THEN panel.deploying
       ELSE commands.deploy > (IF panel.deploying THEN 1 ELSE 0)
    /\ commands' = [commands EXCEPT !.deploy = @ - 1]
    /\ mirror' = IF ok THEN [mirror EXCEPT !["deploy"] = st] ELSE mirror
    /\ error' = IF ok THEN error ELSE "detail"
    /\ panel' = IF own THEN [panel EXCEPT !.deploying = FALSE] ELSE panel
    /\ last' = Step(IF ok THEN "deploy_ok" ELSE "deploy_fail")
    /\ UNCHANGED run
    /\ UNCHANGED <<pageVarsOfPanel, trackerVars, cycleVars, filesVars>>

\* The Detener button (panel lines 50, 61, 67): onTeardown is the page's
\* handleTeardown.
ClickTeardown ==
    /\ panel.open /\ panel.composeInfo # "notool"
    /\ isRunning
    /\ commands.teardown < MaxCommands
    /\ commands' = [commands EXCEPT !.teardown = @ + 1]
    /\ last' = Step("click_teardown")
    /\ UNCHANGED <<run, mirror, error, panel>>
    /\ UNCHANGED <<pageVarsOfPanel, trackerVars, cycleVars, filesVars>>

\* teardownApp settles: handleTeardown (part_007 line 241).
TeardownAnswered(ok, st) ==
    /\ commands.teardown > 0
    /\ commands' = [commands EXCEPT !.teardown = @ - 1]
    /\ mirror' = IF ok THEN [mirror EXCEPT !["deploy"] = st] ELSE mirror
    /\ error' = IF ok THEN error ELSE "detail"
    /\ last' = Step(IF ok THEN "teardown_ok" ELSE "teardown_fail")
    /\ UNCHANGED <<run, panel>>
    /\ UNCHANGED <<pageVarsOfPanel, trackerVars, cycleVars, filesVars>>

NextDeploy ==
    \/ OpenPanel
    \/ ClosePanel
    \/ \E info \in {"tool", "notool"} : ComposeChecked(info)
    \/ \E body \in PanelRuns, st \in DeployStatuses : PanelPoll(body, st)
    \/ ClickExport
    \/ \E own \in BOOLEAN : ExportPosted(own)
    \/ \E own \in BOOLEAN : ExportRejected(own)
    \/ \E own \in BOOLEAN, body \in PanelRuns, st \in DeployStatuses :
          ExportReturned(own, body, st)
    \/ ClickDeploy
    \/ \E own \in BOOLEAN, ok \in BOOLEAN, st \in DeployStatuses :
          DeployAnswered(own, ok, st)
    \/ ClickTeardown
    \/ \E ok \in BOOLEAN, st \in DeployStatuses : TeardownAnswered(ok, st)

SpecDeploy == InitDeploy /\ [][NextDeploy]_vars

----------------------------------------------------------------------------
\* FilesPanel

pageVarsOfFiles ==
    <<mounted, run, mirror, loading, error, hitlLoading, hitlJustApproved,
      timer, polls, older, hitlCalls, exporting, notFound, completedSeen,
      submitGate>>

\* A page that shows a run with generated files, on the Archivos tab:
\* FilesPanel with the state of lines 8-10.
InitFiles ==
    /\ mounted = TRUE
    /\ run = RunRec("running", "building", "Backend Builder")
    /\ mirror = [f \in Fields |-> "v1"]
    /\ loading = FALSE
    /\ error = "none"
    /\ hitlLoading = FALSE
    /\ hitlJustApproved = FALSE
    /\ timer = TRUE
    /\ polls = 0
    /\ older = 0
    /\ hitlCalls = 0
    /\ exporting = FALSE
    /\ notFound = FALSE
    /\ completedSeen = FALSE
    /\ submitGate = "none"
    /\ last = NoStep
    /\ activityLog = <<>>
    /\ timeline = NoTimeline
    /\ ComponentsIdle

RECURSIVE SumOver(_, _)
SumOver(f, S) ==
    IF S = {} THEN 0
    ELSE LET x == CHOOSE y \in S : TRUE IN f[x] + SumOver(f, S \ {x})

\* getFileContent calls awaiting their answer.
PendingFiles == SumOver(fileRequests, FilePaths)

\* handleSelect(path) on the selected path: line 13.
Deselect(path) ==
    /\ mounted /\ selected = path
    /\ selected' = "none"
    /\ last' = Step("deselect")
    /\ UNCHANGED <<content, loadingFile, fileRequests>>
    /\ UNCHANGED <<pageVarsOfFiles, trackerVars, cycleVars, deployVars>>

\* handleSelect(path) on another path, up to its await: lines 14-15.
Select(path) ==
    /\ mounted /\ selected # path
    /\ PendingFiles < MaxFileRequests
    /\ selected' = path
    /\ loadingFile' = TRUE
    /\ fileRequests' = [fileRequests EXCEPT ![path] = @ + 1]
    /\ last' = Step("select")
    /\ UNCHANGED content
    /\ UNCHANGED <<pageVarsOfFiles, trackerVars, cycleVars, deployVars>>

\* getFileContent(runId, path) settles: lines 15-17.  A fulfilled call
\* stores the text of the path, a rejected one the error placeholder.
FileAnswered(path, ok) ==
    /\ mounted /\ fileRequests[path] > 0
    /\ fileRequests' = [fileRequests EXCEPT ![path] = @ - 1]
    /\ content' = [path |-> path, kind |-> IF ok THEN "text" ELSE "error"]
    /\ loadingFile' = FALSE
    /\ last' = Step("file")
    /\ UNCHANGED selected
    /\ UNCHANGED <<pageVarsOfFiles, trackerVars, cycleVars, deployVars>>

NextFiles ==
    \/ \E path \in FilePaths : Deselect(path)
    \/ \E path \in FilePaths : Select(path)
    \/ \E path \in FilePaths, ok \in BOOLEAN : FileAnswered(path, ok)

SpecFiles == InitFiles /\ [][NextFiles]_vars

----------------------------------------------------------------------------
\* Properties

\* The phase that follows a gate.
PredictedPhase(gate) == IF gate = "hitl_gate_1" THEN "building" ELSE "devops"

\* The last step applied a fulfilled getRun whose status is still
\* waiting_hitl while the overlay was pending.
StalePollApplied ==
    /\ last.op = "poll" /\ last.armed
    /\ last.res.kind = "ok" /\ last.res.data.status = "waiting_hitl"

\* The last step applied a fulfilled getRun whose status is not
\* waiting_hitl while the overlay was pending.
FreshPollApplied ==
    /\ last.op = "poll" /\ last.armed
    /\ last.res.kind = "ok" /\ last.res.data.status # "waiting_hitl"

\* The gate is rendered with its buttons enabled.
ControlAvailable == \E d \in Decisions, fb \in Feedbacks : CanSubmit(d, fb)

\* C1: while the overlay is pending after a submission made at a gate, every
\* applied poll result that is still waiting_hitl leaves the view running,
\* at the phase that follows that gate, with no current agent.
C1_StalePollKeepsPrediction ==
    (StalePollApplied /\ submitGate \in Gates) =>
        /\ run.status = "running"
        /\ run.current_phase = PredictedPhase(submitGate)
        /\ run.current_agent = ""

\* C2: when a submit made with the view at a gate is acknowledged with a
\* status other than already_processed, the view is at once running, at the
\* phase that follows that gate, with no current agent, whatever
\* current_phase the acknowledgment carries.
C2_AckPublishesPrediction ==
    (/\ last.op = "hitl_ack"
     /\ last.ack.status # "already_processed"
     /\ last.phase \in Gates) =>
        /\ run.status = "running"
        /\ run.current_phase = PredictedPhase(last.phase)
        /\ run.current_agent = ""

\* C3: when the overlay is pending and an applied poll result has a status
\* other than waiting_hitl, the overlay is retired and the view is exactly
\* that result, also when its phase is earlier than the predicted one and
\* when its status is error.
C3_FreshPollSupersedes ==
    FreshPollApplied => (~hitlJustApproved /\ run = last.res.data)

\* The prediction was devops and the result building/running was adopted.
C3_Witness ==
    /\ FreshPollApplied
    /\ last.phase = "devops"
    /\ run = RunRec("running", "building", "Backend Builder")
    /\ ~hitlJustApproved

\* What a cycle with exactly one rejected fetch leaves in the mirror: the
\* five other fields hold that cycle's results.
OthersUpdated ==
    /\ \A f \in Fields \ last.failed : mirror[f] = last.ver
    /\ "run" \notin last.failed =>
          /\ run.present
          /\ IF last.armed /\ last.res.data.status = "waiting_hitl"
             THEN run.status = "running"
             ELSE run = last.res.data

\* C4 as stated: in every applied cycle in which exactly one of the six
\* fetches is rejected, whatever the failure, the five other fields are
\* updated with that cycle's results.
C4_AnyFailureKeepsOthers ==
    (last.op = "poll" /\ Cardinality(last.failed) = 1) => OthersUpdated

\* C4 as amended: the same, except when the rejected fetch is getRun and the
\* failure is a 404 (then the cycle returns before it updates any field).
C4_TransientFailureKeepsOthers ==
    (/\ last.op = "poll" /\ Cardinality(last.failed) = 1
     /\ last.res.kind # "notfound") => OthersUpdated

\* The deploy-status fetch alone was rejected: deploy keeps its older
\* value, the five other fields hold the cycle's results.
C4_Witness ==
    /\ last.op = "poll" /\ last.failed = {"deploy"}
    /\ mirror["deploy"] \notin {"initial", last.ver}
    /\ \A f \in Fields \ {"deploy"} : mirror[f] = last.ver
    /\ run = last.res.data

\* C5: once a 404 has been applied, no fetchAll is started in that
\* activation.
C5_NoCycleAfterNotFound ==
    [][(notFound /\ notFound') => polls' <= polls]_vars

\* C6: once a 404 has been applied, the run stays absent for the rest of
\* the activation.
C6_AbsentForever == notFound => ~run.present

\* C7: once a completed result has been applied, the overlay is retired and
\* the interval is cleared for the rest of the activation; the prediction
\* of handleHITL never makes the view completed.
C7_CompletedStopsPolling ==
    /\ (last.op = "poll" /\ last.res.data.status = "completed") =>
          ~hitlJustApproved
    /\ (last.op = "hitl_ack" /\ last.ack.status # "already_processed") =>
          run.status # "completed"
    /\ completedSeen => ~timer

\* C8: after a completed result has been applied, no decision can be
\* submitted.
C8_NoSubmitAfterCompleted == completedSeen => ~ControlAvailable

\* C9: while the overlay is pending no decision can be submitted and no
\* control command is in flight.
C9_OneOverlay == hitlJustApproved => (~ControlAvailable /\ hitlCalls = 0)

\* The overlay is pending, a stale waiting_hitl result was just applied to
\* a shown run, and no command is loading.
C9_Witness ==
    /\ StalePollApplied /\ hitlJustApproved
    /\ mounted /\ ~loading /\ run.present /\ ~hitlLoading

\* C10: a rejected control command arms no overlay, leaves the run view as
\* it was, sets the error and clears hitlLoading, so that a view still at
\* the gate can submit again.
C10_CommandFailure ==
    [][HitlFailure =>
         /\ run' = run
         /\ ~hitlJustApproved'
         /\ error' # "none"
         /\ ~hitlLoading'
         /\ (run.status = "waiting_hitl" => ControlAvailable')]_vars

\* The command was rejected with the view at a gate: the error is shown and
\* the gate is enabled again.
C10_Witness ==
    /\ last.op = "hitl_fail"
    /\ error = "detail" /\ ~hitlLoading /\ ~hitlJustApproved
    /\ run.status = "waiting_hitl" /\ ControlAvailable

\* C11: an already_processed answer to a HITL command is a success that
\* changes nothing: the error banner is as it was, the overlay flag is not
\* set (a retired overlay stays retired), the run view is the one shown
\* before, and the buttons are released.
C11_AlreadyProcessed ==
    [][\A data \in HitlAcks :
         (HitlResponse(data) /\ data.status = "already_processed") =>
             /\ run' = run
             /\ hitlJustApproved' = hitlJustApproved
             /\ ~hitlJustApproved'
             /\ error' = error
             /\ ~hitlLoading']_vars

\* An already_processed answer arrived at a view waiting at a gate and left
\* it there without an overlay and without an error.
C11_Witness ==
    /\ last.op = "hitl_ack"
    /\ last.ack.status = "already_processed"
    /\ run.status = "waiting_hitl"
    /\ ~hitlJustApproved
    /\ error = "none"
    /\ ~hitlLoading

\* C12: an activation (the page is mounted, or the run it shows changes)
\* leaves the interval armed and a cycle in flight; while the interval is
\* armed a tick can start a cycle whether or not earlier cycles are still
\* in flight (up to the modelled bound), and once it is cleared no tick
\* starts one.
C12_ImmediateThenEveryTick ==
    /\ last.op \in {"mount", "activate"} => (timer /\ polls >= 1)
    /\ (mounted /\ timer /\ polls < MaxInFlight) => ENABLED Tick
    /\ ~timer => ~ENABLED Tick

\* A tick started a cycle while an earlier one was still in flight.
C12_Witness == last.op = "tick" /\ polls >= 2 /\ timer

\* The timeline has been rendered from the props of the state.
Rendered == last.op = "render"

\* C13: whatever the run and whatever the entries of activityLog and their
\* order, the rendered timeline lists the seven phases planning,
\* hitl_gate_1, building, integration, hitl_gate_2, devops, done in that
\* order, and rendering leaves the run and the log as they were.
C13_FixedPhaseOrder ==
    [][Render =>
         /\ [i \in DOMAIN timeline' |-> timeline'[i].key] =
                <<"planning", "hitl_gate_1", "building", "integration",
                  "hitl_gate_2", "devops", "done">>
         /\ run' = run
         /\ activityLog' = activityLog]_vars

\* The timeline of a log whose entries arrive against the order of the
\* phases: the last phase's agent first, the first phase's agent second.
C13_Witness ==
    /\ Rendered
    /\ Len(activityLog) = 2
    /\ activityLog[1].agent = "Pipeline"
    /\ activityLog[2].agent = "BA Agent"
    /\ run.current_phase = "done"

\* Position of a phase in the fixed order, counted from one.
PhasePosition(phase) ==
    CASE phase = "planning" -> 1
      [] phase = "hitl_gate_1" -> 2
      [] phase = "building" -> 3
      [] phase = "integration" -> 4
      [] phase = "hitl_gate_2" -> 5
      [] phase = "devops" -> 6
      [] phase = "done" -> 7

SevenPhases ==
    {"planning", "hitl_gate_1", "building", "integration", "hitl_gate_2",
     "devops", "done"}

\* C14: when current_phase is one of the seven phases, a phase is done iff
\* it comes before current_phase, current iff it is current_phase, pending
\* iff it comes after; every phase is in exactly one of the three classes.
C14_Classification ==
    (Rendered /\ run.current_phase \in SevenPhases) =>
        \A i \in 1..7 :
            LET here == PhasePosition(run.current_phase)
                ph == timeline[i]
            IN  /\ ph.isDone <=> i < here
                /\ ph.isCurrent <=> i = here
                /\ ph.isPending <=> i > here
                /\ Cardinality({c \in {"done", "current", "pending"} :
                        \/ c = "done" /\ ph.isDone
                        \/ c = "current" /\ ph.isCurrent
                        \/ c = "pending" /\ ph.isPending}) = 1

\* A timeline with phases of the three classes.
C14_Witness ==
    /\ Rendered
    /\ run.current_phase = "integration"
    /\ timeline[3].isDone /\ timeline[4].isCurrent /\ timeline[5].isPending

\* The pairs <<agent, entry>> the claim expects for a phase: the agents of
\* the log that the table maps to the phase, each with the entry of that
\* agent that arrived last.
ExpectedAgents(key) ==
    { <<activityLog[n].agent, activityLog[n]>> :
        n \in { m \in DOMAIN activityLog :
                  /\ AGENT_PHASE(activityLog[m].agent) = key
                  /\ \A later \in DOMAIN activityLog :
                        (later > m) =>
                            activityLog[later].agent # activityLog[m].agent } }

\* The pairs the timeline shows for its i-th phase.
ExposedAgents(i) == { timeline[i].agents[n] : n \in DOMAIN timeline[i].agents }

\* C15 as stated: every done or current phase shows exactly the expected
\* pairs whatever the status of the run, a pending phase shows none.
C15_DoneAndCurrentExposeAgents ==
    Rendered =>
        \A i \in 1..7 :
            /\ (timeline[i].isDone \/ timeline[i].isCurrent) =>
                   ExposedAgents(i) = ExpectedAgents(timeline[i].key)
            /\ timeline[i].isPending => ExposedAgents(i) = {}

\* C15, amended: a done phase, and the current phase of a run whose status
\* is running, show exactly the expected pairs, each once; a pending phase
\* and the current phase of a run with another status show none.
C15_DoneAndRunningCurrentExposeAgents ==
    Rendered =>
        \A i \in 1..7 :
            IF \/ timeline[i].isDone
               \/ timeline[i].isCurrent /\ run.status = "running"
            THEN /\ ExposedAgents(i) = ExpectedAgents(timeline[i].key)
                 /\ Len(timeline[i].agents) = Cardinality(ExposedAgents(i))
            ELSE timeline[i].agents = <<>>

\* A later entry of an agent has overridden an earlier one, in a done
\* phase and in the current phase of a running run.
C15_Witness ==
    /\ Rendered
    /\ Len(activityLog) = 2
    /\ activityLog[1].agent = activityLog[2].agent
    /\ activityLog[1].message # activityLog[2].message
    /\ run.status = "running"
    /\ \E i \in 1..7 :
          /\ timeline[i].isDone \/ timeline[i].isCurrent
          /\ timeline[i].agents = <<<<activityLog[2].agent, activityLog[2]>>>>

\* C16: when a cycle settles that was started before the cycle whose run
\* result the view applied last, its result is discarded: the run view and
\* the overlay flag stay as they are.
C16_OlderResponseDiscarded ==
    [][\A o \in RunOutcomes, failed \in FailTogether, v \in OnePayload,
          k \in 1..MaxInFlight :
         (PollResponse(o, failed, v, k) /\ k <= older) =>
             (run' = run /\ hitlJustApproved' = hitlJustApproved)]_vars

\* The polling is deactivated: the page is left, or the interval was
\* cleared on a completed run.
Deactivated == ~mounted \/ (~timer /\ run.status = "completed")

\* C17: a response that arrives while the polling is deactivated changes
\* neither the run view, nor the other fields of the mirror, nor the
\* overlay flag.
C17_LateResponseDiscarded ==
    [][(Deactivated /\ polls' < polls) =>
           (run' = run /\ mirror' = mirror
              /\ hitlJustApproved' = hitlJustApproved)]_vars

\* C18: a rejected fetch leaves its own field with the value it had; it
\* sets no error; and when it is getRun that is rejected, with anything but
\* a 404, the run view, the overlay flag and the interval stay as they are.
\* (Only PollResponse leaves last.op = "poll", with the outcomes it applied.)
C18_TransientFailure ==
    [][(last'.op = "poll" /\ polls' = polls - 1) =>
           /\ \A f \in last'.failed \cap Fields : mirror'[f] = mirror[f]
           /\ error' = error
           /\ (last'.res.kind = "fail") =>
                  /\ run' = run
                  /\ hitlJustApproved' = hitlJustApproved
                  /\ timer' = timer]_vars

\* Every fetch of a cycle was rejected while a run was shown under a
\* pending overlay: the run, the fetched fields, the overlay and the
\* interval are still there and no error is shown.
C18_Witness ==
    /\ last.op = "poll"
    /\ last.res.kind = "fail"
    /\ last.failed = Fields \cup {"run"}
    /\ run.present
    /\ \A f \in Fields : mirror[f] = "v1"
    /\ hitlJustApproved
    /\ timer
    /\ error = "none"

\* C19: while the page stays mounted, the overlay flag goes from set to
\* clear only in a step that applies a fulfilled getRun whose status is not
\* waiting_hitl: no tick, no rejected fetch, no 404, no answer or failure
\* of a command clears it.
C19_RetiredOnlyByFreshPoll ==
    [][(mounted' /\ hitlJustApproved /\ ~hitlJustApproved') =>
           /\ last'.op = "poll"
           /\ last'.res.kind = "ok"
           /\ last'.res.data.status # "waiting_hitl"]_vars

\* A poll result that is past the gate has retired a pending overlay.
C19_Witness ==
    /\ last.op = "poll"
    /\ last.armed
    /\ last.res.kind = "ok"
    /\ last.res.data.status = "running"
    /\ ~hitlJustApproved

\* C20: while the run is absent because getRun answered 404, no overlay is
\* pending.
C20_NoOverlayAfterNotFound ==
    (mounted /\ notFound /\ ~run.present) => ~hitlJustApproved

\* Every body of getRun the model draws keeps status and phase consistent.
ResponsesConsistent ==
    \A r \in RunResponses :
        /\ r.status = "waiting_hitl" => r.current_phase \in Gates
        /\ r.status = "completed" => r.current_phase = "done"

\* C21: the merged run view, whenever a run is shown, has a gate phase when
\* its status is waiting_hitl and the phase done when its status is
\* completed, given that the backend's bodies do.
C21_StatusPhaseConsistent ==
    (ResponsesConsistent /\ run.present) =>
        /\ run.status = "waiting_hitl" => run.current_phase \in Gates
        /\ run.status = "completed" => run.current_phase = "done"

\* A pending overlay has just masked a waiting_hitl result.
C21_Witness ==
    /\ last.op = "poll"
    /\ last.armed /\ hitlJustApproved
    /\ last.res.kind = "ok"
    /\ last.res.data.status = "waiting_hitl"
    /\ run.status = "running"
    /\ run.current_phase \notin Gates

\* C24: right after an activation (the page is mounted, or the run it shows
\* changes) no overlay is pending and the view holds neither a run nor
\* fetched fields of the activation before.
C24_FreshActivation ==
    (last.op \in {"mount", "activate"}) =>
        /\ ~hitlJustApproved
        /\ ~run.present
        /\ mirror = InitMirror

\* C25: once a completed result has been applied in this activation and
\* the interval is cleared, the view shows a completed run.
C25_CompletedStays ==
    (mounted /\ completedSeen /\ ~timer) =>
        (run.present /\ run.status = "completed")

\* C26: the page presents the run as absent (not loading, no run) only
\* after a 404 was applied in this activation.
C26_AbsentOnlyAfterNotFound ==
    (mounted /\ ~loading /\ ~run.present) => notFound

C28_ExactlyOneCurrent ==
    Rendered =>
        /\ Cardinality({i \in 1..7 : timeline[i].isCurrent}) = 1
        /\ (run.current_phase \notin SevenPhases) =>
               /\ timeline[1].key = "planning"
               /\ timeline[1].isCurrent
               /\ \A i \in 2..7 :
                     timeline[i].isPending /\ ~timeline[i].isDone

\* The timeline of a run whose current_phase is not a phase of the table.
C28_Witness ==
    /\ Rendered
    /\ run.current_phase = "review"
    /\ timeline[1].isCurrent /\ timeline[7].isPending

\* C22: as soon as one read of a fetchAll call is fulfilled, its field
\* holds what it returned, whether or not the other reads of the call have
\* settled.
C22_FetchedFieldApplied ==
    /\ \A f \in Fields : fetches[f] \in OnePayload => mirror[f] = fetches[f]
    /\ fetches["run"] = "body" => run = CycleBody

\* C23: the deploy and files fields change only in a step that applies the
\* result of a poll cycle (a scheduled one, or the fetchAll that follows an
\* export), never in the step that handles the answer of a command.
C23_CommandsWriteNothing ==
    [][(mirror'["deploy"] # mirror["deploy"]
          \/ mirror'["files"] # mirror["files"]) =>
           last'.op \in {"poll", "export_return"}]_vars

\* C29: Exportar can be pressed only on a completed run with no export
\* awaiting its answer; Desplegar only after an export of this panel
\* succeeded, with no deploy awaiting its answer and a deploy status that
\* is neither running nor already_running; Detener only with a deploy
\* status that is running or already_running.
C29_CommandsOrdered ==
    /\ ENABLED ClickExport =>
           (run.status = "completed"
              /\ commands.export + commands.refresh = 0)
    /\ ENABLED ClickDeploy =>
           (panel.exportResult /\ commands.deploy = 0 /\ ~isRunning)
    /\ ENABLED ClickTeardown => isRunning

\* C30: whenever a path is selected and the panel is not loading, the
\* content it shows (text or error placeholder) was fetched for the
\* selected path.
C30_ContentOfSelected ==
    (selected # "none" /\ ~loadingFile) => content.path = selected

====
